---- MODULE Spec2Model ----
(***************************************************************************)
(* A model of the owned-drop crate (src/src/lib.rs): the wrapper           *)
(* DropOwned<T>(ManuallyDrop<T>), its constructors, Deref/DerefMut,        *)
(* into_inner and the Drop hook that hands the contained value by          *)
(* ownership to OwnedDroppable::drop_owned.                                *)
(*                                                                         *)
(* The contained type is the PushVec of the crate's doctests: a value      *)
(* `elt` and a reference to an external Vec; its drop_owned pushes elt.    *)
(* drop_owned is user code, so it may also panic.                          *)
(***************************************************************************)
EXTENDS Integers, Sequences, FiniteSets, TLC

\* Number of wrapper instances the host program creates.
NumWrappers == 2
\* Values of PushVec.elt are 0..MaxVal.
MaxVal == 1
\* Cap on the per-wrapper count of drop_owned invocations (reached only
\* when the host re-enters Drop::drop through unsafe code).
MaxCalls == 2

Wrappers == 1..NumWrappers
Val == 0..MaxVal

\* An Option: <<>> is "no value", <<v>> is "the value v".
None == <<>>
Some(v) == <<v>>
Opt(S) == {None} \cup {Some(v) : v \in S}

VARIABLES
    life,       \* per wrapper: "unborn", "live", "dropping" (inside Drop::drop,
                \* drop_owned running), "dropped" (Drop::drop returned),
                \* "unwound" (Drop::drop left by drop_owned's panic),
                \* "consumed" (moved into into_inner)
    slot,       \* per wrapper: the bits of the ManuallyDrop<T> field (Option)
    occ,        \* per wrapper: "Absent", "Occupied" or "Vacated": whether the
                \* field still logically owns the value
    armed,      \* per wrapper: the host will run Drop::drop when its scope ends
    temp,       \* per wrapper: the value owned by the running drop_owned call
    ret,        \* per wrapper: the value into_inner returned to its caller
    calls,      \* per wrapper: how many times drop_owned was invoked on its value
    vec,        \* the external Vec the doctest's drop_owned pushes to
    seen,       \* the wrapper and value of the outstanding &T from deref
    built,      \* the wrapper a constructor has just returned, and which one
    init,       \* per wrapper: the value given at construction
    expect,     \* per wrapper: the value the caller last stored in it
    torn,       \* per wrapper: default teardowns (drop glue) of the field's content
    failed,     \* per wrapper: a drop_owned call on its value panicked
    panicking,  \* the thread is unwinding from a panic
    aborted     \* a second panic during unwinding aborted the process

vars == <<life, slot, occ, armed, temp, ret, calls, vec, seen, built, init,
          expect, torn, failed, panicking, aborted>>

Lives == {"unborn", "live", "dropping", "dropped", "unwound", "consumed"}
Ctors == {"new", "from", "drop_owned"}

TypeOK ==
    /\ life \in [Wrappers -> Lives]
    /\ slot \in [Wrappers -> Opt(Val)]
    /\ occ \in [Wrappers -> {"Absent", "Occupied", "Vacated"}]
    /\ armed \in [Wrappers -> BOOLEAN]
    /\ temp \in [Wrappers -> Opt(Val)]
    /\ ret \in [Wrappers -> Opt(Val)]
    /\ calls \in [Wrappers -> 0..MaxCalls]
    /\ vec \in Seq(Val)
    /\ seen \in Opt(Wrappers \X Val)
    /\ built \in Opt(Wrappers \X Ctors)
    /\ init \in [Wrappers -> Opt(Val)]
    /\ expect \in [Wrappers -> Opt(Val)]
    /\ torn \in [Wrappers -> 0..MaxCalls]
    /\ failed \in [Wrappers -> BOOLEAN]
    /\ panicking \in BOOLEAN
    /\ aborted \in BOOLEAN

Init ==
    /\ life = [w \in Wrappers |-> "unborn"]
    /\ slot = [w \in Wrappers |-> None]
    /\ occ = [w \in Wrappers |-> "Absent"]
    /\ armed = [w \in Wrappers |-> FALSE]
    /\ temp = [w \in Wrappers |-> None]
    /\ ret = [w \in Wrappers |-> None]
    /\ calls = [w \in Wrappers |-> 0]
    /\ vec = <<>>
    /\ seen = None
    /\ built = None
    /\ init = [w \in Wrappers |-> None]
    /\ expect = [w \in Wrappers |-> None]
    /\ torn = [w \in Wrappers |-> 0]
    /\ failed = [w \in Wrappers |-> FALSE]
    /\ panicking = FALSE
    /\ aborted = FALSE

\* No destructor is running: the thread is single and Drop::drop, once
\* entered, runs drop_owned to its end before anything else happens.
Idle == \A w \in Wrappers : life[w] # "dropping"

\* The host's ordinary code runs: no unwinding, no abort, no destructor.
Running == ~panicking /\ ~aborted /\ Idle

(***************************************************************************)
(* Construction                                                            *)
(***************************************************************************)

\* ManuallyDrop::new(val) wrapped in Self: an occupied slot; the wrapper is
\* an ordinary owned value, so the host arms its destructor.
new(val) == [slot |-> Some(val), occ |-> "Occupied", armed |-> TRUE]

\* A from that moved the new wrapper into a ManuallyDrop of its own: nothing
\* would ever run its destructor.
from_forgotten(val) == [new(val) EXCEPT !.armed = FALSE]

\* From<T>::from
from(val) == new(val)

\* the free function drop_owned(val)
drop_owned(val) == new(val)

\* The host binds wrapper w to the state d a constructor returned.
Bind(w, c, v, d) ==
    /\ Running
    /\ life[w] = "unborn"
    /\ life' = [life EXCEPT ![w] = "live"]
    /\ slot' = [slot EXCEPT ![w] = d.slot]
    /\ occ' = [occ EXCEPT ![w] = d.occ]
    /\ armed' = [armed EXCEPT ![w] = d.armed]
    /\ built' = Some(<<w, c>>)
    /\ init' = [init EXCEPT ![w] = Some(v)]
    /\ expect' = [expect EXCEPT ![w] = Some(v)]
    /\ seen' = None
    /\ UNCHANGED <<temp, ret, calls, vec, torn, failed, panicking, aborted>>

New(w, v) == Bind(w, "new", v, new(v))
From(w, v) == Bind(w, "from", v, from(v))
DropOwnedFn(w, v) == Bind(w, "drop_owned", v, drop_owned(v))

(***************************************************************************)
(* Access                                                                  *)
(***************************************************************************)

\* Deref::deref: self.0.deref(), a reference to the field's content. There
\* is no check of any kind: it yields whatever bits the field holds.
deref(w) == slot[w][1]

\* A deref_mut that hands out a reference to a copy: the store is lost.
deref_mut_copy(w, v) == slot

\* DerefMut::deref_mut: self.0.deref_mut(), through which the caller stores v.
deref_mut(w, v) == [slot EXCEPT ![w] = Some(v)]

\* An access that moves the value out of the field (ManuallyDrop::take in
\* place of deref) to form its reference.
borrow_taking(w) ==
    /\ occ' = [occ EXCEPT ![w] = "Vacated"]
    /\ UNCHANGED <<armed, temp, ret, calls, vec, torn>>

\* What deref and deref_mut do besides handing out the reference: nothing.
\* self.0.deref() and self.0.deref_mut() only form a reference to the field.
borrow_field(w) == UNCHANGED <<occ, armed, temp, ret, calls, vec, torn>>

Deref(w) ==
    /\ Running
    /\ life[w] = "live"
    /\ seen' = Some(<<w, deref(w)>>)
    /\ borrow_field(w)
    /\ built' = None
    /\ UNCHANGED <<life, slot, init, expect, failed, panicking, aborted>>

DerefMut(w, v) ==
    /\ Running
    /\ life[w] = "live"
    /\ slot' = deref_mut(w, v)
    /\ borrow_field(w)
    /\ expect' = [expect EXCEPT ![w] = Some(v)]
    /\ seen' = None
    /\ built' = None
    /\ UNCHANGED <<life, init, failed, panicking, aborted>>

(***************************************************************************)
(* Extraction                                                              *)
(***************************************************************************)

\* A take that reads some other memory than the field.
take_elsewhere(w) == Val

\* ManuallyDrop::take(&mut self.0): a bitwise read of the field that leaves
\* the field's bits as they are. Sound only on an occupied field; on a
\* vacated one the read is of a moved-from value and may yield anything.
take(w) == IF occ[w] = "Occupied" THEN {slot[w][1]} ELSE Val

\* An into_inner without the outer ManuallyDrop: the wrapper's destructor
\* stays armed and runs when into_inner returns.
into_inner_armed(w) ==
    /\ \E v \in take(w) : ret' = [ret EXCEPT ![w] = Some(v)]
    /\ occ' = [occ EXCEPT ![w] = "Vacated"]
    /\ UNCHANGED <<armed, slot, temp, calls, vec, torn, panicking, aborted>>

\* An into_inner that finalizes the value before returning it.
into_inner_finalizing(w) ==
    /\ \E v \in take(w) : ret' = [ret EXCEPT ![w] = Some(v)]
    /\ occ' = [occ EXCEPT ![w] = "Vacated"]
    /\ armed' = [armed EXCEPT ![w] = FALSE]
    /\ calls' = [calls EXCEPT ![w] = @ + 1]
    /\ vec' = Append(vec, slot[w][1])
    /\ UNCHANGED <<slot, temp, torn, panicking, aborted>>

\* DropOwned::into_inner: the wrapper is moved into an outer ManuallyDrop, so
\* its destructor is disarmed, and the value is taken out of the field.
into_inner(w) ==
    /\ \E v \in take(w) : ret' = [ret EXCEPT ![w] = Some(v)]
    /\ occ' = [occ EXCEPT ![w] = "Vacated"]
    /\ armed' = [armed EXCEPT ![w] = FALSE]
    /\ UNCHANGED <<slot, temp, calls, vec, torn, panicking, aborted>>

IntoInner(w) ==
    /\ Running
    /\ life[w] = "live"
    /\ into_inner(w)
    /\ life' = [life EXCEPT ![w] = "consumed"]
    /\ seen' = None
    /\ built' = None
    /\ UNCHANGED <<init, expect, failed>>

(***************************************************************************)
(* Teardown                                                                *)
(***************************************************************************)

\* A Drop::drop that calls drop_owned on two bitwise copies of the value.
drop_twice(w) ==
    /\ calls[w] + 1 < MaxCalls
    /\ \E v \in take(w) : temp' = [temp EXCEPT ![w] = Some(v)]
    /\ occ' = [occ EXCEPT ![w] = "Vacated"]
    /\ calls' = [calls EXCEPT ![w] = @ + 2]
    /\ UNCHANGED <<slot, ret, vec, torn, panicking, aborted>>

\* A Drop::drop that passes a copy and leaves the field owning the value.
drop_copy(w) ==
    /\ calls[w] < MaxCalls
    /\ temp' = [temp EXCEPT ![w] = slot[w]]
    /\ calls' = [calls EXCEPT ![w] = @ + 1]
    /\ UNCHANGED <<occ, slot, ret, vec, torn, panicking, aborted>>

\* Drop::drop up to the entry of drop_owned: the value is taken out of the
\* field into a temporary, which drop_owned receives as `self`. The code has
\* no guard: every entry takes and calls.
drop(w) ==
    /\ calls[w] < MaxCalls
    /\ \E v \in take(w) : temp' = [temp EXCEPT ![w] = Some(v)]
    /\ occ' = [occ EXCEPT ![w] = "Vacated"]
    /\ calls' = [calls EXCEPT ![w] = @ + 1]
    /\ UNCHANGED <<slot, ret, vec, torn, panicking, aborted>>

\* The drop glue of a field declared as a plain T: the host tears the
\* field's content down once more after Drop::drop.
field_glue_plain(w) == [torn EXCEPT ![w] = @ + 1]

\* The drop glue of the wrapper's only field, run by the host once
\* Drop::drop is over, on return and on unwinding alike. The field is a
\* ManuallyDrop<T>, which has none.
field_glue(w) == torn

\* The end of the wrapper's scope: the host runs the destructor of a wrapper
\* it still owns, in ordinary execution and while unwinding.
ScopeEnd(w) ==
    /\ ~aborted
    /\ Idle
    /\ armed[w]
    /\ drop(w)
    /\ armed' = [armed EXCEPT ![w] = FALSE]
    /\ life' = [life EXCEPT ![w] = "dropping"]
    /\ seen' = None
    /\ built' = None
    /\ UNCHANGED <<init, expect, failed>>

\* OwnedDroppable::drop_owned of the doctest's PushVec: self.vec.push(self.elt).
push_elt(w) == Append(vec, temp[w][1])

\* drop_owned returns; Drop::drop returns after it.
DropOwnedReturns(w) ==
    /\ life[w] = "dropping"
    /\ vec' = push_elt(w)
    /\ temp' = [temp EXCEPT ![w] = None]
    /\ torn' = field_glue(w)
    /\ life' = [life EXCEPT ![w] = "dropped"]
    /\ UNCHANGED <<slot, occ, armed, ret, calls, seen, built, init, expect,
                   failed, panicking, aborted>>

\* A Drop::drop that catches drop_owned's panic and returns normally.
unwind_suppressed(w) ==
    /\ life' = [life EXCEPT ![w] = "dropped"]
    /\ temp' = [temp EXCEPT ![w] = None]
    /\ UNCHANGED <<calls, vec, occ, armed, panicking, aborted>>

\* Drop::drop when drop_owned panics: there is no catch_unwind, so the panic
\* leaves Drop::drop as it came. The value was moved into drop_owned, whose
\* frame disposes of it. A panic while already unwinding aborts the process.
unwind(w) ==
    /\ life' = [life EXCEPT ![w] = "unwound"]
    /\ temp' = [temp EXCEPT ![w] = None]
    /\ panicking' = TRUE
    /\ aborted' = panicking
    /\ UNCHANGED <<calls, vec, occ, armed>>

DropOwnedPanics(w) ==
    /\ life[w] = "dropping"
    /\ unwind(w)
    /\ torn' = field_glue(w)
    /\ failed' = [failed EXCEPT ![w] = TRUE]
    /\ UNCHANGED <<slot, ret, seen, built, init, expect>>

\* A repeated teardown attempt: a host that breaks the ownership rules with
\* unsafe code (core::ptr::drop_in_place on a wrapper it goes on owning,
\* ManuallyDrop::drop twice) enters Drop::drop of a wrapper whose Drop::drop
\* has already run.
DropAgain(w) ==
    /\ ~aborted
    /\ Idle
    /\ ~armed[w]
    /\ life[w] \in {"dropped", "unwound"}
    /\ drop(w)
    /\ life' = [life EXCEPT ![w] = "dropping"]
    /\ seen' = None
    /\ built' = None
    /\ UNCHANGED <<armed, init, expect, failed>>

\* An access after teardown: a host that breaks the ownership rules with
\* unsafe code calls deref on a wrapper whose field Drop::drop has vacated.
\* deref has no check and panics nowhere: the accessor gets a reference to
\* the moved-from field, whose bits are whatever the memory then holds.
StaleDeref(w) ==
    /\ ~aborted
    /\ Idle
    /\ life[w] \in {"dropped", "unwound"}
    /\ occ[w] = "Vacated"
    /\ \E v \in {deref(w)} \cup Val : seen' = Some(<<w, v>>)
    /\ borrow_field(w)
    /\ built' = None
    /\ UNCHANGED <<life, slot, init, expect, failed, panicking, aborted>>

(***************************************************************************)
(* Specifications                                                          *)
(***************************************************************************)

Next ==
    \/ \E w \in Wrappers, v \in Val : New(w, v)
    \/ \E w \in Wrappers, v \in Val : From(w, v)
    \/ \E w \in Wrappers, v \in Val : DropOwnedFn(w, v)
    \/ \E w \in Wrappers : Deref(w)
    \/ \E w \in Wrappers, v \in Val : DerefMut(w, v)
    \/ \E w \in Wrappers : IntoInner(w)
    \/ \E w \in Wrappers : ScopeEnd(w)
    \/ \E w \in Wrappers : DropOwnedReturns(w)
    \/ \E w \in Wrappers : DropOwnedPanics(w)

\* The host obeys the language's ownership rules.
Spec == Init /\ [][Next]_vars

\* The host does not leak a wrapper (each live wrapper's scope ends or it is
\* passed to into_inner) and drop_owned terminates, by returning or panicking.
Fairness ==
    /\ \A w \in Wrappers : WF_vars(ScopeEnd(w) \/ IntoInner(w))
    /\ \A w \in Wrappers : WF_vars(DropOwnedReturns(w) \/ DropOwnedPanics(w))

LiveSpec == Spec /\ Fairness

NextMisuse ==
    \/ Next
    \/ \E w \in Wrappers : DropAgain(w)
    \/ \E w \in Wrappers : StaleDeref(w)

\* The host may also re-enter Drop::drop, or access a torn-down wrapper,
\* through unsafe code.
SpecMisuse == Init /\ [][NextMisuse]_vars

(***************************************************************************)
(* Properties                                                              *)
(***************************************************************************)

\* The wrapper's Drop::drop has been entered.
Torn(w) == life[w] \in {"dropping", "dropped", "unwound"}

\* The wrapper's life is over.
Ended(w) == life[w] \in {"dropped", "unwound", "consumed"}

\* C1: a wrapper that was built, never passed to into_inner, and whose scope
\* has ended (Drop::drop fired) has had drop_owned invoked on its value
\* exactly once: not zero times, not twice.
C1_ExactlyOnce ==
    \A w \in Wrappers : Torn(w) => (calls[w] = 1 /\ ret[w] = None)

\* C1 witness: a wrapper was dropped and its drop_owned ran to its end.
C1_Witness ==
    \E w \in Wrappers : life[w] = "dropped" /\ calls[w] = 1 /\ Len(vec) = 1

\* C2: once into_inner has returned a wrapper's value, drop_owned is never
\* invoked for it: the wrapper stays consumed, its destructor is disarmed, no
\* drop_owned call holds or has held its value.
C2_IntoInnerSkipsDropOwned ==
    /\ [](\A w \in Wrappers :
            ret[w] # None =>
                /\ life[w] = "consumed"
                /\ calls[w] = 0
                /\ temp[w] = None
                /\ ~armed[w])
    /\ [][\A w \in Wrappers :
            life[w] = "consumed" =>
                /\ life'[w] = "consumed"
                /\ calls'[w] = 0
                /\ ret'[w] = ret[w]]_vars

\* C2 witness: a wrapper was consumed by into_inner and every wrapper's life
\* is over, so nothing more can happen to it.
C2_Witness ==
    /\ \E w \in Wrappers : life[w] = "consumed" /\ ret[w] # None
    /\ \A w \in Wrappers : Ended(w)

\* C3: into_inner returns the value the wrapper held immediately before the
\* call, which is the value the caller last stored in it.
C3_IntoInnerReturnsContent ==
    [][\A w \in Wrappers :
        (life[w] = "live" /\ life'[w] = "consumed") =>
            /\ ret'[w] = slot[w]
            /\ ret'[w] = expect[w]
            /\ ret'[w] # None]_vars

\* C3 witness: into_inner returned a value that a write through deref_mut
\* had made different from the constructed one.
C3_Witness ==
    \E w \in Wrappers :
        life[w] = "consumed" /\ ret[w] # None /\ ret[w] # init[w]

\* C4: the value a deref sees, the value drop_owned receives and the value
\* into_inner returns are all the value last stored through the wrapper; a
\* drop_owned that returned has pushed that value.
C4_AccessFidelity ==
    /\ seen # None => Some(seen[1][2]) = expect[seen[1][1]]
    /\ \A w \in Wrappers :
        /\ life[w] = "dropping" => temp[w] = expect[w]
        /\ ret[w] # None => ret[w] = expect[w]
        /\ life[w] = "dropped" =>
              \E i \in DOMAIN vec : Some(vec[i]) = expect[w]

\* C4 witness: the doctest's scenario. A wrapper built on one value was
\* written to another and dropped; the Vec holds exactly the written value.
C4_Witness ==
    \E w \in Wrappers :
        /\ life[w] = "dropped"
        /\ expect[w] # init[w]
        /\ vec = expect[w]

\* C5: drop_owned is invoked at most once per wrapper, however often
\* Drop::drop is entered for it.
C5_NoDoubleDrop ==
    \A w \in Wrappers : calls[w] <= 1

\* C6: the slot goes from Occupied to Vacated and never leaves Vacated; the
\* vacating step hands the value either to one drop_owned call or to the
\* caller of into_inner; no wrapper's value is handed to both.
C6_VacateOnce ==
    /\ [](\A w \in Wrappers :
            /\ occ[w] = "Occupied" => (calls[w] = 0 /\ ret[w] = None)
            /\ occ[w] = "Vacated" => calls[w] + Len(ret[w]) = 1)
    /\ [][\A w \in Wrappers :
            /\ occ[w] = "Vacated" => occ'[w] = "Vacated"
            /\ (occ[w] = "Occupied" /\ occ'[w] = "Vacated") =>
                  \/ /\ calls'[w] = 1
                     /\ temp'[w] = slot[w]
                     /\ ret'[w] = None
                  \/ /\ ret'[w] = slot[w]
                     /\ calls'[w] = 0
                     /\ temp'[w] = None]_vars

\* C6 witness: one wrapper was vacated by Drop::drop and another by
\* into_inner.
C6_Witness ==
    \E w, u \in Wrappers :
        /\ life[w] = "dropped" /\ occ[w] = "Vacated"
        /\ life[u] = "consumed" /\ occ[u] = "Vacated"

\* C7: a live wrapper that the host does not leak is eventually Vacated (an
\* abort of the process ends every scope without running it).
C7_EventuallyVacated ==
    \A w \in Wrappers :
        (life[w] = "live") ~> (occ[w] = "Vacated" \/ aborted)

\* C7 witness: every wrapper was built and has been vacated, without abort.
C7_Witness ==
    /\ ~aborted
    /\ \A w \in Wrappers : Ended(w) /\ occ[w] = "Vacated"

\* C8: when drop_owned panics, the panic leaves Drop::drop (the thread
\* unwinds, or aborts if it was unwinding already), drop_owned is not called
\* again on that value, and the wrapper runs no other teardown on it.
C8_PanicPropagates ==
    /\ [](\A w \in Wrappers :
            failed[w] =>
                /\ life[w] = "unwound"
                /\ panicking
                /\ calls[w] = 1
                /\ temp[w] = None
                /\ torn[w] = 0
                /\ ~armed[w])
    /\ [][\A w \in Wrappers :
            (life[w] = "dropping" /\ failed'[w]) =>
                (aborted' = panicking /\ vec' = vec)]_vars

\* C8 witness: a drop_owned panicked, the unwinding dropped the other
\* wrappers, and every wrapper's life is over.
C8_Witness ==
    /\ \E w \in Wrappers : failed[w]
    /\ \E w \in Wrappers : life[w] = "dropped" /\ ~failed[w]
    /\ \A w \in Wrappers : Ended(w)

\* C9: a wrapper just returned by From::from or by the free function
\* drop_owned is in the state DropOwned::new gives for the same value:
\* Occupied, holding that value, armed, with nothing finalized or returned.
C9_ConstructorsAgree ==
    \A w \in Wrappers, c \in Ctors :
        built = Some(<<w, c>>) =>
            /\ [slot |-> slot[w], occ |-> occ[w], armed |-> armed[w]]
                  = [slot |-> init[w], occ |-> "Occupied", armed |-> TRUE]
            /\ life[w] = "live"
            /\ expect[w] = init[w]
            /\ calls[w] = 0 /\ temp[w] = None /\ ret[w] = None
            /\ torn[w] = 0 /\ ~failed[w]

\* C9 witness: a wrapper has just been built by a constructor other than new.
C9_Witness ==
    \E w \in Wrappers : built \in {Some(<<w, "from">>), Some(<<w, "drop_owned">>)}

\* The number of owners of wrapper w's value: the wrapper's field, the
\* drop_owned calls it was handed to, the caller of into_inner.
Owners(w) ==
    (IF occ[w] = "Occupied" THEN 1 ELSE 0) + calls[w] + Len(ret[w])

\* C10: a built wrapper's value has exactly one owner among the wrapper,
\* the drop_owned call and the caller of into_inner; once the wrapper's life
\* is over the owner is one of the latter two.
C10_SingleOwner ==
    \A w \in Wrappers :
        /\ life[w] # "unborn" => Owners(w) = 1
        /\ Ended(w) => (occ[w] = "Vacated" /\ calls[w] + Len(ret[w]) = 1)

\* C10 witness: every wrapper's life is over, one value went to drop_owned
\* and one to the caller of into_inner.
C10_Witness ==
    /\ \A w \in Wrappers : Ended(w)
    /\ \E w \in Wrappers : calls[w] = 1
    /\ \E w \in Wrappers : ret[w] # None

\* C11: a wrapper its caller can still reach (built, and neither in
\* Drop::drop nor passed to into_inner) has an Occupied slot holding a value,
\* so deref and deref_mut always find their precondition.
C11_LiveIsOccupied ==
    \A w \in Wrappers :
        /\ life[w] = "live" =>
              (occ[w] = "Occupied" /\ slot[w] # None /\ slot[w] = expect[w])
        /\ occ[w] = "Vacated" => life[w] \notin {"unborn", "live"}

\* C11 witness: a live wrapper has just been read through deref while another
\* wrapper's slot is already Vacated.
C11_Witness ==
    \E w, u \in Wrappers :
        /\ life[w] = "live" /\ seen # None /\ seen[1][1] = w
        /\ occ[u] = "Vacated"

\* C12: no access ever yields data from a Vacated slot: a reference handed
\* out by deref is to an Occupied slot (an access to a Vacated one would
\* have ended fatally instead).
C12_VacatedAccessFatal ==
    seen # None => occ[seen[1][1]] = "Occupied"

\* C13: a step in which deref hands out a reference changes nothing of any
\* wrapper (occupancy, content, drop_owned calls, the Vec); while a wrapper
\* stays live, and so across every deref_mut, its occupancy and everything
\* but its content stay as they are, and a step that changes its content
\* changes nothing else.
C13_AccessFrame ==
    [][\A w \in Wrappers :
        /\ (seen' # seen /\ seen' # None /\ seen'[1][1] = w) =>
              UNCHANGED <<life, slot, occ, armed, temp, ret, calls, vec, torn,
                          expect>>
        /\ (life[w] = "live" /\ life'[w] = "live") =>
              /\ occ'[w] = occ[w]
              /\ calls'[w] = calls[w]
              /\ armed'[w] = armed[w]
              /\ temp'[w] = temp[w]
              /\ ret'[w] = ret[w]
              /\ torn'[w] = torn[w]
        /\ (life[w] = "live" /\ life'[w] = "live" /\ slot'[w] # slot[w]) =>
              /\ UNCHANGED <<life, occ, armed, temp, ret, calls, vec, torn>>
              /\ \A u \in Wrappers \ {w} : slot'[u] = slot[u]]_vars

\* C13 witness: a wrapper was written through deref_mut and then read
\* through deref; it is still Occupied and nothing was finalized.
C13_Witness ==
    \E w \in Wrappers :
        /\ life[w] = "live"
        /\ seen # None /\ seen[1][1] = w /\ Some(seen[1][2]) = expect[w]
        /\ expect[w] # init[w]
        /\ occ[w] = "Occupied"
        /\ calls[w] = 0

\* C14: while drop_owned runs the slot is already Vacated and drop_owned
\* holds the extracted value, the one the wrapper contained, as its only
\* owner; the wrapper runs no default teardown of the slot's content before,
\* during or after the call.
C14_TakeThenDropOwned ==
    \A w \in Wrappers :
        /\ life[w] = "dropping" =>
              /\ occ[w] = "Vacated"
              /\ temp[w] # None
              /\ temp[w] = expect[w]
              /\ ret[w] = None
              /\ calls[w] = 1
        /\ torn[w] = 0

\* C14 witness: one wrapper is inside drop_owned and another's Drop::drop is
\* over.
C14_Witness ==
    \E w, u \in Wrappers :
        /\ life[w] = "dropping" /\ temp[w] # None
        /\ life[u] \in {"dropped", "unwound"}

\* C15: drop_owned is invoked only as a wrapper's scope ends and Drop::drop is
\* entered, and the Vec changes only as a drop_owned returns; a constructor
\* changes nothing but the wrapper it builds, into_inner nothing but the
\* wrapper it consumes and the value it returns; a wrapper that is unborn,
\* live or consumed has had no drop_owned call and no teardown.
C15_OnlyDropFinalizes ==
    /\ [](\A w \in Wrappers :
            life[w] \in {"unborn", "live", "consumed"} =>
                (calls[w] = 0 /\ temp[w] = None /\ torn[w] = 0 /\ ~failed[w]))
    /\ [][/\ calls' # calls =>
                \E w \in Wrappers :
                    /\ armed[w] /\ life[w] = "live" /\ life'[w] = "dropping"
                    /\ calls' = [calls EXCEPT ![w] = 1]
          /\ vec' # vec =>
                \E w \in Wrappers :
                    life[w] = "dropping" /\ life'[w] = "dropped"
          /\ \A w \in Wrappers :
                (life[w] = "unborn" /\ life'[w] = "live") =>
                    /\ UNCHANGED <<vec, calls, temp, ret, torn, failed,
                                   panicking, aborted>>
                    /\ \A u \in Wrappers \ {w} :
                          slot'[u] = slot[u] /\ occ'[u] = occ[u]
          /\ \A w \in Wrappers :
                (life[w] = "live" /\ life'[w] = "consumed") =>
                    UNCHANGED <<vec, calls, temp, slot, torn, failed,
                                panicking, aborted>>]_vars

\* C15 witness: the second doctest's scenario on every wrapper. Each was
\* built, one was written and passed to into_inner, and no drop_owned has
\* run: the Vec is empty.
C15_Witness ==
    /\ \A w \in Wrappers : life[w] # "unborn" /\ calls[w] = 0
    /\ \E w \in Wrappers :
          life[w] = "consumed" /\ ret[w] # None /\ expect[w] # init[w]
    /\ vec = <<>>

====
